---- MODULE Spec2Model ----
(***************************************************************************)
(* Model of the matlabw C++ wrapper over MATLAB's mx/mex C API.            *)
(*                                                                         *)
(* The native runtime is a heap of mxArray objects (identified by 1..      *)
(* MaxArr; 0 is nullptr).  mx::Array objects live in slots 1..NObj (a new  *)
(* object takes the lowest empty slot) and hold one mxArray pointer each.  Every member function is an operator    *)
(* over a "world" record (the fields a member function can read or write,  *)
(* the native calls it made, the exception it threw and its return value); *)
(* every action runs one whole member function and commits its world.      *)
(***************************************************************************)
EXTENDS Integers, Sequences, FiniteSets, TLC

VARIABLES
  life,         \* life[o]: "alive" (an Array object exists in slot o) or "unborn"
  mArray,       \* mArray[o]: Array::mArray, 0 = nullptr
  st,           \* st[p]: "free" (never allocated), "live", "dead" (destroyed)
  cls,          \* cls[p]: the mxClassID of mxArray p
  dims,         \* dims[p]: the dimensions of mxArray p
  data,         \* data[p]: the char16_t data of mxArray p (column-major)
  cname,        \* cname[p]: class name set by mxSetClassName ("" if none)
  destroyCount, \* destroyCount[p]: times mxArray p was freed, capped at 2
  fields,       \* fields[p]: the fields of struct p, in field-number order
  wsp,          \* wsp[n]: the mxArray workspace n holds as variable "x"
  hands,        \* raw pointers release() handed to the caller, not adopted since
  lost,         \* pointers the wrapper released or got and left without an owner
  last          \* the last operation: what it was given, returned, threw, called

vars == <<life, mArray, st, cls, dims, data, cname, destroyCount,
          fields, wsp, hands, lost, last>>

\* ------------------------------------------------------------------ bounds
NObj   == 3   \* Array objects alive at the same time
MaxArr == 3   \* mxArray objects the runtime can allocate
MaxStrLen == 2  \* longest string, and largest extent of a char array

Obj  == 1..NObj
Ptr  == 1..MaxArr
Null == 0

NullStr == "nullptr"   \* a const char* that is null

\* The names getWorkspaceName returns.
WorkspaceNames == {"base", "global", "caller"}

NoExc == <<>>
Exc(id, msg) == <<id, msg>>

\* ------------------------------------------------------------------ world
World ==
  [mArray |-> mArray, st |-> st, cls |-> cls, dims |-> dims, data |-> data,
   cname |-> cname, destroyCount |-> destroyCount, fields |-> fields,
   wsp |-> wsp, calls |-> <<>>, exc |-> NoExc, ret |-> Null]

Call(w, fn, arg) == [w EXCEPT !.calls = Append(@, <<fn, arg>>)]
Throw(w, id, msg) == [w EXCEPT !.exc = Exc(id, msg)]
Return(w, v) == [w EXCEPT !.ret = v]

Min(a, b) == IF a < b THEN a ELSE b

RECURSIVE Prod(_)
Prod(d) == IF d = <<>> THEN 1 ELSE Head(d) * Prod(Tail(d))

\* ------------------------------------------------------------ native API
\* mxDestroyArray(p): frees p and, for a struct, the arrays its fields hold; a
\* null pointer is ignored.  A second free of the same mxArray is counted.
FieldValues(w, p) ==
  {w.fields[p][f].vals[i] :
     f \in 1..Len(w.fields[p]), i \in 1..Prod(w.dims[p])} \ {Null}
mxDestroyArray(w, p) ==
  LET c == Call(w, "mxDestroyArray", p)
      freed == {p} \cup FieldValues(w, p) IN
  IF p = Null THEN c
  ELSE [c EXCEPT
          !.st = [x \in Ptr |-> IF x \in freed THEN "dead" ELSE @[x]],
          !.destroyCount =
             [x \in Ptr |-> IF x \in freed THEN Min(@[x] + 1, 2) ELSE @[x]],
          !.cls = [x \in Ptr |-> IF x \in freed THEN "none" ELSE @[x]],
          !.dims = [x \in Ptr |-> IF x \in freed THEN <<>> ELSE @[x]],
          !.data = [x \in Ptr |-> IF x \in freed THEN <<>> ELSE @[x]],
          !.cname = [x \in Ptr |-> IF x \in freed THEN "" ELSE @[x]],
          !.fields = [x \in Ptr |-> IF x \in freed THEN <<>> ELSE @[x]]]

\* The pointers mxDuplicateArray / mxCreate* may return: null (out of memory)
\* or the next mxArray never allocated before.
FreePtrs == {q \in Ptr : st[q] = "free"}
NextFree == CHOOSE q \in FreePtrs : \A r \in FreePtrs : q <= r
NativeAlloc == {Null} \cup (IF FreePtrs = {} THEN {} ELSE {NextFree})

\* mxDuplicateArray(p) returning q: q is a deep copy of p, or null.
mxDuplicateArray(w, p, q) ==
  LET c == Call(w, "mxDuplicateArray", p) IN
  IF q = Null THEN Return(c, Null)
  ELSE Return([c EXCEPT !.st[q] = "live", !.cls[q] = w.cls[p],
                        !.dims[q] = w.dims[p], !.data[q] = w.data[p],
                        !.cname[q] = w.cname[p]], q)

\* ------------------------------------------------------------- mx::Array
\* Array::isValid
isValid(w, o) == w.mArray[o] # Null

\* Array::get
get(w, o) == w.mArray[o]

\* Array::release: std::exchange(mArray, nullptr)
releaseKeepsBug(w, o) == Return(w, w.mArray[o])
release(w, o) == Return([w EXCEPT !.mArray[o] = Null], w.mArray[o])

\* Array::destroy: mxDestroyArray(release())
destroy(w, o) ==
  LET r == release(w, o) IN mxDestroyArray(r, r.ret)

\* Array::duplicateArray(array); q is what mxDuplicateArray returns
duplicateArrayShallowBug(w, p, q) == Return(w, p)
duplicateArray(w, p, q) ==
  IF p # Null
  THEN LET d == mxDuplicateArray(w, p, q) IN
       IF d.ret = Null THEN Throw(d, "", "failed to duplicate array") ELSE d
  ELSE Return(w, Null)

\* Array::checkValid(id)
checkValidNoThrowBug(w, o, id) == w
checkValid(w, o, id) ==
  IF ~isValid(w, o) THEN Throw(w, id, "accessing invalid array") ELSE w

\* Array(mxArray*&& array): mArray{array}
adoptCtor(w, o, p) == [w EXCEPT !.mArray[o] = p]

\* Array(const Array&), Array(const ArrayRef&), Array(const ArrayCref&):
\* Array{duplicateArray(other.get())}; p is other.get()
copyCtorNoNullCheckBug(w, o, p, q) ==
  adoptCtor(IF p # Null THEN mxDuplicateArray(w, p, q) ELSE Return(w, Null),
            o, IF p # Null THEN q ELSE Null)
copyCtor(w, o, p, q) ==
  LET d == duplicateArray(w, p, q) IN
  IF d.exc # NoExc THEN d ELSE adoptCtor(d, o, d.ret)

\* Array(Array&& other): mArray{other.release()}
moveCtorCopiesBug(w, o, s) == [w EXCEPT !.mArray[o] = w.mArray[s]]
moveCtor(w, o, s) ==
  LET r == release(w, s) IN [r EXCEPT !.mArray[o] = r.ret]

\* operator=(const Array&), operator=(const ArrayRef&), operator=(const ArrayCref&)
copyAssignNoDestroyBug(w, o, p, q) ==
  IF get(w, o) # p
  THEN LET u == duplicateArray(w, p, q) IN
       IF u.exc # NoExc THEN u ELSE [u EXCEPT !.mArray[o] = u.ret]
  ELSE w
copyAssign(w, o, p, q) ==
  IF get(w, o) # p
  THEN LET d == destroy(w, o)
           u == duplicateArray(d, p, q) IN
       IF u.exc # NoExc THEN u ELSE [u EXCEPT !.mArray[o] = u.ret]
  ELSE w

\* operator=(Array&& other)
moveAssign(w, o, s) ==
  IF o # s
  THEN LET d == destroy(w, o)
           r == release(d, s) IN [r EXCEPT !.mArray[o] = r.ret]
  ELSE w

\* ---------------------------------------------------- Array accessors
\* The accessors whose whole body is checkValid(id); return mxF(mArray);
\* each with the native function it forwards to.
Forwarders ==
  [getRank |-> "mxGetNumberOfDimensions", getDimM |-> "mxGetM",
   getDimN |-> "mxGetN", getSize |-> "mxGetNumberOfElements",
   getSizeOfElement |-> "mxGetElementSize", isNumeric |-> "mxIsNumeric",
   isComplex |-> "mxIsComplex", isEmpty |-> "mxIsEmpty",
   isScalar |-> "mxIsScalar", isDouble |-> "mxIsDouble",
   isSingle |-> "mxIsSingle", isInt8 |-> "mxIsInt8", isUint8 |-> "mxIsUint8",
   isInt16 |-> "mxIsInt16", isUint16 |-> "mxIsUint16",
   isInt32 |-> "mxIsInt32", isUint32 |-> "mxIsUint32",
   isInt64 |-> "mxIsInt64", isUint64 |-> "mxIsUint64",
   isSparse |-> "mxIsSparse", isChar |-> "mxIsChar",
   isLogical |-> "mxIsLogical", isLogicalScalar |-> "mxIsLogicalScalar",
   isLogicalScalarTrue |-> "mxIsLogicalScalarTrue", isStruct |-> "mxIsStruct",
   isCell |-> "mxIsCell", getClassName |-> "mxGetClassName"]

AccId(name) == "matlabw:mx:Array:" \o name

\* getRank, getDimM, ..., getClassName
forwarder(w, o, name) ==
  LET c == checkValid(w, o, AccId(name)) IN
  IF c.exc # NoExc THEN c ELSE Call(c, Forwarders[name], c.mArray[o])

\* Array::getDims: View{mxGetDimensions(mArray), getRank()}
getDims(w, o) ==
  LET c == checkValid(w, o, AccId("getDims")) IN
  IF c.exc # NoExc THEN c
  ELSE forwarder(Call(c, "mxGetDimensions", c.mArray[o]), o, "getRank")

\* Array::resize(View dims); r is what mxSetDimensions returns
resize(w, o, newDims, r) ==
  LET c == checkValid(w, o, AccId("resize")) IN
  IF c.exc # NoExc THEN c
  ELSE LET n == Call(c, "mxSetDimensions", c.mArray[o]) IN
       IF r # 0 THEN Throw(n, "", "failed to resize array")
       ELSE IF c.mArray[o] = Null THEN n
       ELSE [n EXCEPT !.dims[c.mArray[o]] = newDims]

\* Array::resize(m, n): resize({{m, n}})
resizeMN(w, o, m, n, r) == resize(w, o, <<m, n>>, r)

\* Array::isClass(const char* name)
isClass(w, o, name) ==
  LET c == checkValid(w, o, AccId("isClass")) IN
  IF c.exc # NoExc THEN c
  ELSE IF name = NullStr THEN Throw(c, "", "invalid class name")
  ELSE Call(c, "mxIsClass", c.mArray[o])

\* Array::isClass(std::string_view name): isClass(name.data())
isClassView(w, o, name) == isClass(w, o, name)

\* Array::getClassId
getClassId(w, o) ==
  LET c == checkValid(w, o, AccId("getClassId")) IN
  IF c.exc # NoExc THEN c
  ELSE Return(Call(c, "mxGetClassID", c.mArray[o]),
              IF c.mArray[o] = Null THEN "none" ELSE c.cls[c.mArray[o]])

\* Array::getData; the data pointer of mxArray p is written p
getData(w, o) ==
  LET c == checkValid(w, o, AccId("getData")) IN
  IF c.exc # NoExc THEN c
  ELSE Return(Call(c, "mxGetData", c.mArray[o]), c.mArray[o])

\* Array::getDataAs<T>; t is TypeProperties<T>::classId
getDataAsNoCheckBug(w, o, t) == getData(w, o)
getDataAs(w, o, t) ==
  LET c == getClassId(w, o) IN
  IF c.exc # NoExc THEN c
  ELSE IF c.ret # t
  THEN Throw(Return(c, Null), "matlabw:mx:Array:getDataAs",
             "type must match the array class ID")
  ELSE getData(c, o)

\* Array::getScalarAs<T>: *getDataAs<T>()
getScalarAs(w, o, t) == getDataAs(w, o, t)

\* operator ArrayRef / operator ArrayCref; name is operatorArrayRef or
\* operatorArrayCref
toRef(w, o, name) ==
  LET c == checkValid(w, o, AccId(name)) IN
  IF c.exc # NoExc THEN c ELSE Return(c, c.mArray[o])

\* ------------------------------------------------------------ char arrays
\* char16_t code units: 0 is NUL, the others stand for letters.
Alphabet == {1, 2}
Strings == UNION {[1..k -> Alphabet] : k \in 0..MaxStrLen}

Zeros(n) == [i \in 1..n |-> 0]

\* mxGetNumberOfDimensions, mxGetM, mxGetN, mxGetNumberOfElements
mxGetNumberOfDimensions(w, p) == Len(w.dims[p])
mxGetM(w, p) == w.dims[p][1]
mxGetN(w, p) == Prod(Tail(w.dims[p]))
mxGetNumberOfElements(w, p) == Prod(w.dims[p])

\* mxCreateCharArray(ndim, dims) returning q: a zero-filled char array, or
\* null.  For ndim < 2 the result is two-dimensional; whether the single
\* extent becomes the rows or the columns is the runtime's choice (layout).
Layouts == {"column", "row"}
mxCreateCharArray(w, q, ds, layout) ==
  LET c == Call(w, "mxCreateCharArray", Len(ds))
      d2 == IF Len(ds) >= 2 THEN ds
            ELSE IF layout = "column" THEN <<ds[1], 1>> ELSE <<1, ds[1]>> IN
  IF q = Null THEN Return(c, Null)
  ELSE Return([c EXCEPT !.st[q] = "live", !.cls[q] = "char", !.dims[q] = d2,
                        !.data[q] = Zeros(Prod(d2))], q)

\* mxCreateStringFromNChars(str, n) returning q: a 1-by-n char array holding
\* str, or null.
mxCreateStringFromNChars(w, q, str) ==
  LET c == Call(w, "mxCreateStringFromNChars", Len(str)) IN
  IF q = Null THEN Return(c, Null)
  ELSE Return([c EXCEPT !.st[q] = "live", !.cls[q] = "char",
                        !.dims[q] = <<1, Len(str)>>, !.data[q] = str], q)

\* mxGetString(p, buf, buflen): copies at most buflen - 1 characters and
\* returns 1 when the buffer cannot hold the whole array, else 0.
mxGetString(w, p, buflen) ==
  Return(Call(w, "mxGetString", p),
         IF buflen - 1 < mxGetNumberOfElements(w, p) THEN 1 ELSE 0)

\* makeCharArray(View<std::size_t> dims)
makeCharArrayDims(w, o, ds, q, layout) ==
  LET c == mxCreateCharArray(w, q, ds, layout) IN
  IF c.ret = Null THEN Throw(c, "", "failed to create char array")
  ELSE adoptCtor(c, o, c.ret)

\* makeCharArray(std::string_view str)
makeCharArrayStr(w, o, str, q) ==
  LET c == mxCreateStringFromNChars(w, q, str) IN
  IF c.ret = Null THEN Throw(c, "", "failed to create char array")
  ELSE adoptCtor(c, o, c.ret)

\* makeCharArray(std::u16string_view str): makeCharArray({{str.size() + 1}})
\* and std::copy(str.begin(), str.end(), array.begin())
makeCharArrayU16(w, o, str, q, layout) ==
  LET a == makeCharArrayDims(w, o, <<Len(str) + 1>>, q, layout) IN
  IF a.exc # NoExc THEN a
  ELSE [a EXCEPT !.data[a.mArray[o]] =
          [i \in 1..Len(@) |-> IF i <= Len(str) THEN str[i] ELSE @[i]]]

\* CharArray::CharArray(std::u16string_view str): the base is move-constructed
\* from makeCharArray(str), so the new object holds the temporary's pointer
charArrayCtorU16(w, o, str, q, layout) == makeCharArrayU16(w, o, str, q, layout)

\* CharArray::isSingleString: (getRank() <= 2) && (getDimM() == 1)
charArrayIsSingleString(w, o) ==
  LET r == forwarder(w, o, "getRank") IN
  IF r.exc # NoExc THEN r
  ELSE IF ~(mxGetNumberOfDimensions(r, r.mArray[o]) <= 2) THEN Return(r, FALSE)
  ELSE LET m == forwarder(r, o, "getDimM") IN
       IF m.exc # NoExc THEN m ELSE Return(m, mxGetM(m, m.mArray[o]) = 1)

\* CharArray::operator std::u16string_view
charArrayU16View(w, o) ==
  LET i == charArrayIsSingleString(w, o) IN
  IF i.exc # NoExc THEN i
  ELSE IF ~i.ret
  THEN Throw(Return(i, <<>>), "matlabw:mx:CharArray:operatorU16StringView",
             "array must be a single string")
  ELSE LET g == getData(i, o)
           n == forwarder(g, o, "getDimN") IN
       Return(n, SubSeq(n.data[n.mArray[o]], 1, mxGetN(n, n.mArray[o])))

\* CharArrayCref::isSingleString, on a reference to mxArray p
crefIsSingleString(w, p) ==
  (mxGetNumberOfDimensions(w, p) <= 2) /\ (mxGetM(w, p) = 1)

\* std::char_traits<char16_t>::length(array.getData()): the units before the
\* first NUL.  With no NUL in the array the scan runs past its end; it then
\* stops `over` units beyond it.
HasNul(d) == \E i \in 1..Len(d) : d[i] = 0
length(d, over) ==
  IF HasNul(d)
  THEN (CHOOSE i \in 1..Len(d) : d[i] = 0 /\ \A j \in 1..(i - 1) : d[j] # 0) - 1
  ELSE Len(d) + over

\* toAscii(CharArrayCref array)
toAscii(w, p, over) ==
  IF crefIsSingleString(w, p)
  THEN Throw(Return(w, <<>>), "matlabw:mx:toAscii", "Input must be a single string.\n")
  ELSE LET size == length(w.data[p], over)
           g == mxGetString(w, p, size + 1) IN
       IF g.ret # 0
       THEN Throw(Return(g, <<>>), "matlabw:mx:toAscii",
                  "Failed to convert char16_t array to string.\n")
       ELSE Return(g, [i \in 1..size |->
                         IF i <= Len(w.data[p]) THEN w.data[p][i] ELSE 0])

\* mxSetClassName(p, name) returning r: 0 and the class name is set, or
\* non-zero and nothing changes.
mxSetClassName(w, p, name, r) ==
  LET c == Call(w, "mxSetClassName", p) IN
  Return(IF r = 0 /\ p # Null THEN [c EXCEPT !.cname[p] = name] ELSE c, r)

\* makeObjectArray(StructArray&& srcArray, const char* className); o is the
\* Array it returns, r is what mxSetClassName returns
makeObjectArray(w, o, s, className, r) ==
  IF ~isValid(w, s) THEN Throw(w, "", "invalid source array")
  ELSE IF className = NullStr THEN Throw(w, "", "invalid class name")
  ELSE LET rel == release(w, s)
           n == mxSetClassName(rel, rel.ret, className, r) IN
       IF n.ret # 0 THEN Throw(n, "", "failed to set class name")
       ELSE moveCtor(n, o, s)

\* makeObjectArray(StructArray&& srcArray, std::string_view className):
\* forwards className.data()
makeObjectArrayView(w, o, s, className, r) ==
  makeObjectArray(w, o, s, className, r)

\* ---------------------------------------------------------- struct arrays
\* A struct mxArray holds fields in field-number order; each field has a name
\* and one value (an mxArray pointer, null if unset) per element.
FieldNames == {NullStr, "a", "b"}

\* FieldIndex::invalid: what getFieldIndex returns for mxGetFieldNumber's -1.
invalid == 0 - 1
\* The FieldIndex values tried: invalid, every field number a struct can
\* have, and one past them.
FieldIndexes == {invalid} \cup (0..Cardinality(FieldNames \ {NullStr}))

\* std::nullopt, and an optional that holds x
nullopt == <<>>
Some(x) == <<x>>

\* mxGetNumberOfFields
mxGetNumberOfFields(w, p) == Len(w.fields[p])

\* mxGetFieldNumber(p, name): the number of the field called name, -1 if
\* there is none or name is null.
mxGetFieldNumber(w, p, name) ==
  LET hit == {f \in 1..Len(w.fields[p]) : w.fields[p][f].name = name} IN
  IF name = NullStr \/ hit = {} THEN 0 - 1 ELSE (CHOOSE f \in hit : TRUE) - 1

\* mxAddField(p, name): appends a field whose values are all unset and
\* returns its number, or returns -1 (out of memory, or the name is taken).
mxAddField(w, p, name, ok) ==
  LET c == Call(w, "mxAddField", <<p, name>>) IN
  IF ok /\ mxGetFieldNumber(w, p, name) = 0 - 1
  THEN Return([c EXCEPT !.fields[p] =
                 Append(@, [name |-> name,
                            vals |-> [i \in 1..Prod(w.dims[p]) |-> Null]])],
              Len(w.fields[p]))
  ELSE Return(c, 0 - 1)

\* mxGetFieldByNumber(p, i, f): the value of field f of element i; null if it
\* is unset or an index is out of range.
mxGetFieldByNumber(w, p, i, f) ==
  IF i < Prod(w.dims[p]) /\ f < Len(w.fields[p])
  THEN w.fields[p][f + 1].vals[i + 1] ELSE Null

\* mxSetFieldByNumber(p, i, f, v): stores the pointer v in the slot.  The
\* runtime does not free what the slot held before.
mxSetFieldByNumber(w, p, i, f, v) ==
  LET c == Call(w, "mxSetFieldByNumber", <<p, i, f, v>>) IN
  IF i < Prod(w.dims[p]) /\ f < Len(w.fields[p])
  THEN [c EXCEPT !.fields[p][f + 1].vals[i + 1] = v] ELSE c

\* mxRemoveField(p, f): removes field f; the later fields move down.
mxRemoveField(w, p, f) ==
  LET c == Call(w, "mxRemoveField", <<p, f>>) IN
  [c EXCEPT !.fields[p] =
     [k \in 1..(Len(@) - 1) |-> IF k <= f THEN @[k] ELSE @[k + 1]]]

\* StructArrayRef::getFieldCount / StructArrayCref::getFieldCount
getFieldCount(w, p) ==
  Return(Call(w, "mxGetNumberOfFields", p), mxGetNumberOfFields(w, p))

\* StructArrayRef::getFieldIndex(const char*) / StructArrayCref::getFieldIndex
getFieldIndex(w, p, fieldName) ==
  LET fieldIdx == mxGetFieldNumber(w, p, fieldName)
      c == Call(w, "mxGetFieldNumber", <<p, fieldName>>) IN
  IF fieldIdx = 0 - 1 THEN Return(c, invalid) ELSE Return(c, fieldIdx)

\* StructArrayRef::getField(std::size_t, FieldIndex), the const overload and
\* StructArrayCref::getField(std::size_t, FieldIndex): the same body
getFieldNoRangeCheckBug(w, p, i, fieldIndex) ==
  IF fieldIndex = invalid THEN Return(w, nullopt)
  ELSE LET c == Call(w, "mxGetFieldByNumber", <<p, i, fieldIndex>>)
           field == mxGetFieldByNumber(w, p, i, fieldIndex) IN
       IF field = Null THEN Return(c, nullopt) ELSE Return(c, Some(field))
getField(w, p, i, fieldIndex) ==
  IF fieldIndex = invalid THEN Return(w, nullopt)
  ELSE LET n == getFieldCount(w, p) IN
       IF fieldIndex >= n.ret
       THEN Throw(n, "", "field index out of range")
       ELSE LET c == Call(n, "mxGetFieldByNumber", <<p, i, fieldIndex>>)
                field == mxGetFieldByNumber(w, p, i, fieldIndex) IN
            IF field = Null THEN Return(c, nullopt)
            ELSE Return(c, Some(field))

\* StructArrayRef::getField(std::size_t, FieldIndex) const
constGetField(w, p, i, fieldIndex) == getField(w, p, i, fieldIndex)

\* StructArrayCref::getField(std::size_t, FieldIndex) const
crefGetField(w, p, i, fieldIndex) == getField(w, p, i, fieldIndex)

\* getField(std::size_t, const char*) and getField(std::size_t,
\* std::string_view): getField(i, getFieldIndex(fieldName))
getFieldByName(w, p, i, fieldName) ==
  LET x == getFieldIndex(w, p, fieldName) IN getField(x, p, i, x.ret)

\* getField(const char*) and getField(std::string_view):
\* getField(0, getFieldIndex(fieldName))
getFieldFirst(w, p, fieldName) == getFieldByName(w, p, 0, fieldName)

\* StructArrayRef::setField(std::size_t, FieldIndex, ArrayCref value); value
\* is value.get(), q is what mxDuplicateArray returns.  The temporary
\* Array{value} is released before it is destroyed.
setFieldNoCopyBug(w, p, i, fieldIndex, value, q) ==
  IF fieldIndex = invalid THEN Throw(w, "", "invalid field index")
  ELSE LET n == getFieldCount(w, p) IN
       IF fieldIndex >= n.ret THEN Throw(n, "", "invalid field index")
       ELSE mxSetFieldByNumber(n, p, i, fieldIndex, value)
setField(w, p, i, fieldIndex, value, q) ==
  IF fieldIndex = invalid THEN Throw(w, "", "invalid field index")
  ELSE LET n == getFieldCount(w, p) IN
       IF fieldIndex >= n.ret THEN Throw(n, "", "invalid field index")
       ELSE LET d == duplicateArray(n, value, q) IN
            IF d.exc # NoExc THEN d
            ELSE mxDestroyArray(
                   mxSetFieldByNumber(d, p, i, fieldIndex, d.ret), Null)

\* setField(std::size_t, const char*, ArrayCref) and the std::string_view
\* overload: setField(i, getFieldIndex(fieldName), value)
setFieldByName(w, p, i, fieldName, value, q) ==
  LET x == getFieldIndex(w, p, fieldName) IN setField(x, p, i, x.ret, value, q)

\* StructArrayRef::setField(std::size_t, FieldIndex, Array&& value); o is the
\* Array moved from
setFieldMove(w, p, i, fieldIndex, o) ==
  IF fieldIndex = invalid THEN Throw(w, "", "invalid field index")
  ELSE LET n == getFieldCount(w, p) IN
       IF fieldIndex >= n.ret THEN Throw(n, "", "invalid field index")
       ELSE LET r == release(n, o) IN
            mxSetFieldByNumber(r, p, i, fieldIndex, r.ret)

\* setField(std::size_t, const char*, Array&&) and the std::string_view
\* overload: setField(i, getFieldIndex(fieldName), std::move(value))
setFieldMoveByName(w, p, i, fieldName, o) ==
  LET x == getFieldIndex(w, p, fieldName) IN setFieldMove(x, p, i, x.ret, o)

\* StructArrayRef::addField(const char*)
addField(w, p, fieldName, ok) ==
  IF fieldName = NullStr THEN Throw(w, "", "invalid field name")
  ELSE LET a == mxAddField(w, p, fieldName, ok) IN
       IF a.ret = 0 THEN Throw(a, "", "failed to add field") ELSE a

\* StructArrayRef::addField(std::string_view): addField(fieldName.data())
addFieldView(w, p, fieldName, ok) == addField(w, p, fieldName, ok)

\* StructArrayRef::removeField(FieldIndex)
removeFieldIndexNoRangeCheckBug(w, p, fieldIndex) ==
  IF fieldIndex # invalid THEN mxRemoveField(w, p, fieldIndex) ELSE w
removeFieldIndex(w, p, fieldIndex) ==
  IF fieldIndex # invalid
  THEN LET n == getFieldCount(w, p) IN
       IF fieldIndex >= n.ret THEN Throw(n, "", "field index out of range")
       ELSE mxRemoveField(n, p, fieldIndex)
  ELSE w

\* StructArrayRef::removeField(const char*) and the std::string_view overload
removeField(w, p, fieldName) ==
  IF fieldName = NullStr THEN Throw(w, "", "invalid field name")
  ELSE LET x == getFieldIndex(w, p, fieldName) IN
       removeFieldIndex(x, p, x.ret)

\* -------------------------------------------------- workspace variables
\* enum class Workspace { base, global, caller }: the enumerators number from
\* 0; a Workspace can hold any other value of its underlying type by a cast.
Workspace == [base |-> 0, global |-> 1, caller |-> 2]
WorkspaceValues == 0..3
VarNames == {NullStr, "x"}

\* mex::getWorkspaceName
getWorkspaceNameSwapBug(w, workspace) ==
  CASE workspace = Workspace.base -> Return(w, "base")
    [] workspace = Workspace.global -> Return(w, "caller")
    [] workspace = Workspace.caller -> Return(w, "global")
    [] OTHER -> Throw(w, "", "invalid workspace")
getWorkspaceName(w, workspace) ==
  CASE workspace = Workspace.base -> Return(w, "base")
    [] workspace = Workspace.global -> Return(w, "global")
    [] workspace = Workspace.caller -> Return(w, "caller")
    [] OTHER -> Throw(w, "", "invalid workspace")

\* mexPutVariable(workspaceName, name, value): the workspace gets its own
\* copy q of value, freeing the one it held, and 0 is returned; or nothing
\* changes and 1 is returned (q is null).
mexPutVariable(w, workspaceName, name, value, q) ==
  LET c == Call(w, "mexPutVariable", <<workspaceName, name, value>>)
      old == w.wsp[workspaceName] IN
  IF q = Null THEN Return(c, 1)
  ELSE Return([c EXCEPT
                 !.st = [x \in Ptr |-> IF x = q THEN "live"
                                       ELSE IF x = old THEN "dead" ELSE @[x]],
                 !.cls[q] = w.cls[value], !.dims[q] = w.dims[value],
                 !.wsp[workspaceName] = q], 0)

\* mexGetVariablePtr(workspaceName, name): the workspace's own array, null if
\* it has no such variable.
mexGetVariablePtr(w, workspaceName, name) ==
  Return(Call(w, "mexGetVariablePtr", <<workspaceName, name>>),
         w.wsp[workspaceName])

\* mexGetVariable(workspaceName, name) returning q: a copy of the variable,
\* null if there is no such variable or no memory.
mexGetVariable(w, workspaceName, name, q) ==
  LET c == Call(w, "mexGetVariable", <<workspaceName, name>>)
      var == w.wsp[workspaceName] IN
  IF var = Null \/ q = Null THEN Return(c, Null)
  ELSE Return([c EXCEPT !.st[q] = "live", !.cls[q] = w.cls[var],
                        !.dims[q] = w.dims[var]], q)

\* mex::putVariable(Workspace, const char*, mx::ArrayCref); value is
\* value.get()
putVariableIgnoresResultBug(w, workspace, name, value, q) ==
  IF name = NullStr THEN Throw(w, "", "invalid variable name")
  ELSE LET n == getWorkspaceName(w, workspace) IN
       IF n.exc # NoExc THEN n
       ELSE mexPutVariable(n, n.ret, name, value, q)
putVariable(w, workspace, name, value, q) ==
  IF name = NullStr THEN Throw(w, "", "invalid variable name")
  ELSE LET n == getWorkspaceName(w, workspace) IN
       IF n.exc # NoExc THEN n
       ELSE LET m == mexPutVariable(n, n.ret, name, value, q) IN
            IF m.ret # 0 THEN Throw(m, "", "failed to put variable") ELSE m

\* mex::putVariable(Workspace, std::string_view, mx::ArrayCref)
putVariableView(w, workspace, name, value, q) ==
  putVariable(w, workspace, name, value, q)

\* mex::getVariableCref(Workspace, const char*)
getVariableCref(w, workspace, name) ==
  IF name = NullStr THEN Throw(w, "", "invalid variable name")
  ELSE LET n == getWorkspaceName(w, workspace) IN
       IF n.exc # NoExc THEN n
       ELSE LET m == mexGetVariablePtr(n, n.ret, name) IN
            IF m.ret = Null THEN Return(m, nullopt)
            ELSE Return(m, Some(m.ret))

\* mex::getVariableCref(Workspace, std::string_view)
getVariableCrefView(w, workspace, name) == getVariableCref(w, workspace, name)

\* mex::getVariable(Workspace, const char*); o is the Array in the optional
\* returned
getVariableNoAdoptBug(w, o, workspace, name, q) ==
  IF name = NullStr THEN Throw(w, "", "invalid variable name")
  ELSE LET n == getWorkspaceName(w, workspace) IN
       IF n.exc # NoExc THEN n
       ELSE LET m == mexGetVariable(n, n.ret, name, q) IN
            IF m.ret = Null THEN Return(m, nullopt)
            ELSE Return(m, Some(m.ret))
getVariable(w, o, workspace, name, q) ==
  IF name = NullStr THEN Throw(w, "", "invalid variable name")
  ELSE LET n == getWorkspaceName(w, workspace) IN
       IF n.exc # NoExc THEN n
       ELSE LET m == mexGetVariable(n, n.ret, name, q) IN
            IF m.ret = Null THEN Return(m, nullopt)
            ELSE Return(adoptCtor(m, o, m.ret), Some(m.ret))

\* mex::getVariable(Workspace, std::string_view)
getVariableView(w, o, workspace, name, q) ==
  getVariable(w, o, workspace, name, q)

\* ------------------------------------------------------------ properties
PropNames == {NullStr, "prop"}
PropIndexes == {0, 1}

\* mxGetProperty(array, index, propName) returning q: a copy of the property
\* value, null if the object has no such property or there is no memory.
mxGetProperty(w, array, index, propName, q) ==
  LET c == Call(w, "mxGetProperty", <<array, index, propName>>) IN
  IF q = Null THEN Return(c, Null)
  ELSE Return([c EXCEPT !.st[q] = "live", !.cls[q] = "double",
                        !.dims[q] = <<1, 1>>], q)

\* mx::getProperty(ArrayRef, std::size_t, const char*); array is array.get()
getPropertyNoNullCheckBug(w, array, index, propName, q) ==
  LET c == mxGetProperty(w, array, index, propName, q) IN
  IF c.ret = Null THEN Return(c, nullopt) ELSE Return(c, Some(c.ret))
getProperty(w, array, index, propName, q) ==
  IF propName = NullStr THEN Throw(w, "", "property name must not be null")
  ELSE LET c == mxGetProperty(w, array, index, propName, q) IN
       IF c.ret = Null THEN Return(c, nullopt) ELSE Return(c, Some(c.ret))

\* getProperty(ArrayRef, std::size_t, std::string_view)
getPropertyView(w, array, index, propName, q) ==
  getProperty(w, array, index, propName, q)

\* getProperty(ArrayRef, const char*) and getProperty(ArrayRef,
\* std::string_view): getProperty(array, 0, propName)
getPropertyFirst(w, array, propName, q) == getProperty(w, array, 0, propName, q)

\* mx::setProperty(ArrayRef, std::size_t, const char*, ArrayCref)
setProperty(w, array, index, propName, value) ==
  IF propName = NullStr THEN Throw(w, "", "property name must not be null")
  ELSE Call(w, "mxSetProperty", <<array, index, propName, value>>)

\* setProperty(ArrayRef, std::size_t, std::string_view, ArrayCref)
setPropertyView(w, array, index, propName, value) ==
  setProperty(w, array, index, propName, value)

\* setProperty(ArrayRef, const char*, ArrayCref) and setProperty(ArrayRef,
\* std::string_view, ArrayCref): setProperty(array, 0, propName, value)
setPropertyFirst(w, array, propName, value) ==
  setProperty(w, array, 0, propName, value)

\* ------------------------------------------------------------- actions
\* What an operation whose outcome is examined leaves in `last`: the object
\* it ran on, its source, the pointer it was given, its other arguments, and what it returned,
\* threw and called.  Every other operation leaves Idle.
Last(op, o, src, pre, w) ==
  [op |-> op, obj |-> o, src |-> src, pre |-> pre, arg |-> <<>>,
   ret |-> w.ret, exc |-> w.exc, calls |-> w.calls]
Idle ==
  [op |-> "idle", obj |-> 0, src |-> 0, pre |-> Null, arg |-> <<>>,
   ret |-> Null, exc |-> NoExc, calls |-> <<>>]

Commit(w) ==
  /\ mArray' = w.mArray
  /\ st' = w.st
  /\ cls' = w.cls
  /\ dims' = w.dims
  /\ data' = w.data
  /\ cname' = w.cname
  /\ destroyCount' = w.destroyCount
  /\ fields' = w.fields
  /\ wsp' = w.wsp

\* The Array objects that exist, and the slot the next one gets.
alive(o) == life[o] = "alive"
IsNextObj(o) == life[o] = "unborn" /\ \A r \in Obj : r < o => life[r] # "unborn"

Init ==
  /\ life = [o \in Obj |-> "unborn"]
  /\ mArray = [o \in Obj |-> Null]
  /\ st = [p \in Ptr |-> "free"]
  /\ cls = [p \in Ptr |-> "none"]
  /\ dims = [p \in Ptr |-> <<>>]
  /\ data = [p \in Ptr |-> <<>>]
  /\ cname = [p \in Ptr |-> ""]
  /\ destroyCount = [p \in Ptr |-> 0]
  /\ fields = [p \in Ptr |-> <<>>]
  /\ wsp = [n \in WorkspaceNames |-> Null]
  /\ hands = {}
  /\ lost = {}
  /\ last = Idle

\* Array a{}: the default constructor
DefaultConstruct(o) ==
  /\ IsNextObj(o)
  /\ life' = [life EXCEPT ![o] = "alive"]
  /\ mArray' = [mArray EXCEPT ![o] = Null]
  /\ last' = Idle
  /\ UNCHANGED <<st, cls, dims, data, cname, destroyCount, fields, wsp, hands, lost>>

\* Array a{mxCreateStructMatrix(1, 1, 0, nullptr)}: the caller creates a 1x1
\* struct mxArray with the native API and an Array adopts the raw pointer.
AdoptNew(o) ==
  /\ IsNextObj(o)
  /\ FreePtrs # {}
  /\ LET q == NextFree
         c == [World EXCEPT !.st[q] = "live", !.cls[q] = "struct",
                            !.dims[q] = <<1, 1>>]
         w == adoptCtor(c, o, q) IN
     /\ Commit(w)
     /\ life' = [life EXCEPT ![o] = "alive"]
     /\ last' = Idle
  /\ UNCHANGED <<hands, lost>>

\* Array a{std::move(p)}: adoption of a raw pointer the caller got from
\* release() and still owns (each raw pointer is adopted by at most one
\* Array), or of a null pointer.
Adopt(o, p) ==
  /\ IsNextObj(o)
  /\ p \in hands \cup {Null}
  /\ LET w == adoptCtor(World, o, p) IN
     /\ Commit(w)
     /\ life' = [life EXCEPT ![o] = "alive"]
     /\ hands' = hands \ {p}
     /\ last' = Idle
  /\ UNCHANGED lost

\* The pointer a copy source yields with get(): an Array (any live slot), or
\* an ArrayRef / ArrayCref, which refers to a live mxArray.
SrcKinds == {"Array", "ArrayRef", "ArrayCref"}
SrcOk(kind, s) ==
  IF kind = "Array" THEN s \in Obj /\ alive(s) ELSE s \in Ptr /\ st[s] = "live"
SrcPtr(kind, s) == IF kind = "Array" THEN mArray[s] ELSE s

\* Array b{a}, Array b{ref}, Array b{cref}
CopyConstruct(o, kind, s, q) ==
  /\ IsNextObj(o)
  /\ SrcOk(kind, s)
  /\ IF SrcPtr(kind, s) = Null THEN TRUE ELSE st[SrcPtr(kind, s)] = "live"
  /\ q \in NativeAlloc
  /\ LET w == copyCtor(World, o, SrcPtr(kind, s), q) IN
     /\ Commit(w)
     /\ life' = [life EXCEPT ![o] = IF w.exc = NoExc THEN "alive" ELSE "unborn"]
     /\ last' = Last("copyCtor" \o kind, o, s, SrcPtr(kind, s), w)
  /\ UNCHANGED <<hands, lost>>

\* Array b{std::move(a)}
MoveConstruct(o, s) ==
  /\ IsNextObj(o)
  /\ alive(s)
  /\ LET w == moveCtor(World, o, s) IN
     /\ Commit(w)
     /\ life' = [life EXCEPT ![o] = "alive"]
     /\ last' = Last("moveCtor", o, s, mArray[s], w)
  /\ UNCHANGED <<hands, lost>>

\* a = b, a = ref, a = cref
CopyAssign(o, kind, s, q) ==
  /\ alive(o)
  /\ SrcOk(kind, s)
  /\ IF SrcPtr(kind, s) = Null THEN TRUE ELSE st[SrcPtr(kind, s)] = "live"
  /\ q \in NativeAlloc
  /\ LET w == copyAssign(World, o, SrcPtr(kind, s), q) IN
     /\ Commit(w)
     /\ last' = Idle
  /\ UNCHANGED <<life, hands, lost>>

\* a = std::move(b)
MoveAssign(o, s) ==
  /\ alive(o)
  /\ alive(s)
  /\ LET w == moveAssign(World, o, s) IN
     /\ Commit(w)
     /\ last' = Idle
  /\ UNCHANGED <<life, hands, lost>>

\* p = a.release(): the caller takes the pointer
Release(o) ==
  /\ alive(o)
  /\ LET w == release(World, o) IN
     /\ Commit(w)
     /\ hands' = IF w.ret = Null THEN hands ELSE hands \cup {w.ret}
     /\ last' = Last("release", o, 0, mArray[o], w)
  /\ UNCHANGED <<life, lost>>

\* ~Array()
Destruct(o) ==
  /\ alive(o)
  /\ LET w == destroy(World, o) IN
     /\ Commit(w)
     /\ life' = [life EXCEPT ![o] = "unborn"]
     /\ last' = Idle
  /\ UNCHANGED <<hands, lost>>

\* Array obj = makeObjectArray(std::move(src), className), through either
\* overload.  A StructArray holds a struct mxArray or nothing.  className is
\* a null pointer or a class name; r is mxSetClassName's return value.
ClassNames == {NullStr, "MyClass"}
SetClassNameRets == {0, 1}
MakeObjectArray(o, s, className, r, view) ==
  /\ IsNextObj(o)
  /\ alive(s)
  /\ IF mArray[s] = Null THEN TRUE ELSE cls[mArray[s]] = "struct"
  /\ LET w == IF view THEN makeObjectArrayView(World, o, s, className, r)
                      ELSE makeObjectArray(World, o, s, className, r) IN
     /\ Commit(w)
     /\ life' = [life EXCEPT ![o] = IF w.exc = NoExc THEN "alive" ELSE "unborn"]
     /\ lost' = lost \cup {p \in Ptr : mArray[s] = p /\ w.mArray[s] # p
                                        /\ \A x \in Obj : w.mArray[x] # p}
     /\ last' = [Last("makeObjectArray", o, s, mArray[s], w)
                   EXCEPT !.arg = <<className, r>>]
  /\ UNCHANGED hands

Next ==
  \/ \E o \in Obj : DefaultConstruct(o)
  \/ \E o \in Obj : AdoptNew(o)
  \/ \E o \in Obj, p \in Ptr \cup {Null} : Adopt(o, p)
  \/ \E o \in Obj, kind \in SrcKinds, s \in Obj \cup Ptr, q \in Ptr \cup {Null} :
       CopyConstruct(o, kind, s, q)
  \/ \E o \in Obj, s \in Obj : MoveConstruct(o, s)
  \/ \E o \in Obj, kind \in SrcKinds, s \in Obj \cup Ptr, q \in Ptr \cup {Null} :
       CopyAssign(o, kind, s, q)
  \/ \E o \in Obj, s \in Obj : MoveAssign(o, s)
  \/ \E o \in Obj : Release(o)
  \/ \E o \in Obj : Destruct(o)

\* The lifetime operations of mx::Array.
Spec == Init /\ [][Next]_vars

\* StructArrays being made, moved, turned into object arrays and destroyed.
NextObj ==
  \/ \E o \in Obj : DefaultConstruct(o)
  \/ \E o \in Obj : AdoptNew(o)
  \/ \E o \in Obj, s \in Obj : MoveConstruct(o, s)
  \/ \E o \in Obj : Destruct(o)
  \/ \E o \in Obj, s \in Obj, className \in ClassNames, r \in SetClassNameRets,
        view \in BOOLEAN : MakeObjectArray(o, s, className, r, view)

SpecObj == Init /\ [][NextObj]_vars

\* ------------------------------------------------- accessor actions
\* The classes of the arrays inspected, and the class IDs of the types T
\* that getDataAs<T> / getScalarAs<T> are instantiated with.
ArrClasses == {"double", "char", "struct"}
TypeClassIds == {"double", "char", "int8"}

\* One Array under inspection: default-constructed (invalid), or holding a
\* 1x1 mxArray of some class.
InitAcc ==
  /\ life = [o \in Obj |-> IF o = 1 THEN "alive" ELSE "unborn"]
  /\ \E valid \in BOOLEAN, c \in ArrClasses :
       /\ mArray = [o \in Obj |-> IF o = 1 /\ valid THEN 1 ELSE Null]
       /\ st = [p \in Ptr |-> IF p = 1 /\ valid THEN "live" ELSE "free"]
       /\ cls = [p \in Ptr |-> IF p = 1 /\ valid THEN c ELSE "none"]
       /\ dims = [p \in Ptr |-> IF p = 1 /\ valid THEN <<1, 1>> ELSE <<>>]
  /\ data = [p \in Ptr |-> <<>>]
  /\ cname = [p \in Ptr |-> ""]
  /\ destroyCount = [p \in Ptr |-> 0]
  /\ fields = [p \in Ptr |-> <<>>]
  /\ wsp = [n \in WorkspaceNames |-> Null]
  /\ hands = {}
  /\ lost = {}
  /\ last = Idle

\* a.getRank(), a.isDouble(), ...
Forward(o, name) ==
  /\ alive(o)
  /\ LET w == forwarder(World, o, name) IN
     /\ Commit(w)
     /\ last' = Last(name, o, 0, mArray[o], w)
  /\ UNCHANGED <<life, hands, lost>>

\* a.getDims()
GetDims(o) ==
  /\ alive(o)
  /\ LET w == getDims(World, o) IN
     /\ Commit(w)
     /\ last' = Last("getDims", o, 0, mArray[o], w)
  /\ UNCHANGED <<life, hands, lost>>

\* a.resize(dims) and a.resize(m, n)
ResizeDims == {<<1, 1>>, <<2, 1>>}
Resize(o, d, r, mn) ==
  /\ alive(o)
  /\ LET w == IF mn THEN resizeMN(World, o, d[1], d[2], r)
                    ELSE resize(World, o, d, r) IN
     /\ Commit(w)
     /\ last' = Last("resize", o, 0, mArray[o], w)
  /\ UNCHANGED <<life, hands, lost>>

\* a.isClass(name), through either overload
IsClass(o, name, view) ==
  /\ alive(o)
  /\ LET w == IF view THEN isClassView(World, o, name)
                      ELSE isClass(World, o, name) IN
     /\ Commit(w)
     /\ last' = Last("isClass", o, 0, mArray[o], w)
  /\ UNCHANGED <<life, hands, lost>>

\* a.getClassId()
GetClassId(o) ==
  /\ alive(o)
  /\ LET w == getClassId(World, o) IN
     /\ Commit(w)
     /\ last' = Last("getClassId", o, 0, mArray[o], w)
  /\ UNCHANGED <<life, hands, lost>>

\* a.getData()
GetData(o) ==
  /\ alive(o)
  /\ LET w == getData(World, o) IN
     /\ Commit(w)
     /\ last' = Last("getData", o, 0, mArray[o], w)
  /\ UNCHANGED <<life, hands, lost>>

\* a.getDataAs<T>()
GetDataAs(o, t) ==
  /\ alive(o)
  /\ LET w == getDataAs(World, o, t) IN
     /\ Commit(w)
     /\ last' = [Last("getDataAs", o, 0, mArray[o], w) EXCEPT !.arg = <<t>>]
  /\ UNCHANGED <<life, hands, lost>>

\* a.getScalarAs<T>()
GetScalarAs(o, t) ==
  /\ alive(o)
  /\ LET w == getScalarAs(World, o, t) IN
     /\ Commit(w)
     /\ last' = [Last("getScalarAs", o, 0, mArray[o], w) EXCEPT !.arg = <<t>>]
  /\ UNCHANGED <<life, hands, lost>>

\* ArrayRef r = a; ArrayCref c = a;
ToRef(o, name) ==
  /\ alive(o)
  /\ LET w == toRef(World, o, name) IN
     /\ Commit(w)
     /\ last' = Last(name, o, 0, mArray[o], w)
  /\ UNCHANGED <<life, hands, lost>>

\* a.isValid()
IsValid(o) ==
  /\ alive(o)
  /\ last' = [Last("isValid", o, 0, mArray[o], World)
                EXCEPT !.ret = IF isValid(World, o) THEN 1 ELSE 0]
  /\ UNCHANGED <<life, mArray, st, cls, dims, data, cname, destroyCount, fields,
               wsp, hands, lost>>

\* a.get()
Get(o) ==
  /\ alive(o)
  /\ last' = [Last("get", o, 0, mArray[o], World) EXCEPT !.ret = get(World, o)]
  /\ UNCHANGED <<life, mArray, st, cls, dims, data, cname, destroyCount, fields,
               wsp, hands, lost>>

NextAcc ==
  \/ \E o \in Obj : Release(o)
  \/ \E o \in Obj, name \in DOMAIN Forwarders : Forward(o, name)
  \/ \E o \in Obj : GetDims(o)
  \/ \E o \in Obj, d \in ResizeDims, r \in {0, 1}, mn \in BOOLEAN : Resize(o, d, r, mn)
  \/ \E o \in Obj, name \in ClassNames, view \in BOOLEAN : IsClass(o, name, view)
  \/ \E o \in Obj : GetClassId(o)
  \/ \E o \in Obj : GetData(o)
  \/ \E o \in Obj, t \in TypeClassIds : GetDataAs(o, t)
  \/ \E o \in Obj, t \in TypeClassIds : GetScalarAs(o, t)
  \/ \E o \in Obj, name \in {"operatorArrayRef", "operatorArrayCref"} : ToRef(o, name)
  \/ \E o \in Obj : IsValid(o)
  \/ \E o \in Obj : Get(o)

\* An Array, valid or not, being inspected, resized and released.
SpecAcc == InitAcc /\ [][NextAcc]_vars

\* ------------------------------------------------- char array actions
\* Each run makes one char array in a fresh runtime and converts it.
Fresh == (\A p \in Ptr : st[p] = "free") /\ (\A o \in Obj : ~alive(o))

CharDims ==
  {<<m, n>> : m \in 1..MaxStrLen, n \in 1..MaxStrLen}
    \cup {<<1, 1, MaxStrLen>>} \cup {<<k>> : k \in 1..MaxStrLen}

\* CharArray a = makeCharArray(dims)
MakeCharArrayDims(o, ds, q, layout) ==
  /\ Fresh /\ IsNextObj(o)
  /\ q \in NativeAlloc
  /\ LET w == makeCharArrayDims(World, o, ds, q, layout) IN
     /\ Commit(w)
     /\ life' = [life EXCEPT ![o] = IF w.exc = NoExc THEN "alive" ELSE "unborn"]
     /\ last' = [Last("makeCharArrayDims", o, 0, Null, w) EXCEPT !.arg = <<ds>>]
  /\ UNCHANGED <<hands, lost>>

\* CharArray a = makeCharArray(std::string_view{...}), a non-empty string
MakeCharArrayStr(o, str, q) ==
  /\ Fresh /\ IsNextObj(o)
  /\ str # <<>>
  /\ q \in NativeAlloc
  /\ LET w == makeCharArrayStr(World, o, str, q) IN
     /\ Commit(w)
     /\ life' = [life EXCEPT ![o] = IF w.exc = NoExc THEN "alive" ELSE "unborn"]
     /\ last' = [Last("makeCharArrayStr", o, 0, Null, w) EXCEPT !.arg = <<str>>]
  /\ UNCHANGED <<hands, lost>>

\* CharArray a = makeCharArray(std::u16string_view{...}) or CharArray a{...}
MakeCharArrayU16(o, str, q, layout, ctor) ==
  /\ Fresh /\ IsNextObj(o)
  /\ q \in NativeAlloc
  /\ LET w == IF ctor THEN charArrayCtorU16(World, o, str, q, layout)
                      ELSE makeCharArrayU16(World, o, str, q, layout) IN
     /\ Commit(w)
     /\ life' = [life EXCEPT ![o] = IF w.exc = NoExc THEN "alive" ELSE "unborn"]
     /\ last' = [Last("makeCharArrayU16", o, 0, Null, w) EXCEPT !.arg = <<str>>]
  /\ UNCHANGED <<hands, lost>>

\* std::fill_n(static_cast<char16_t*>(a.getData()), a.getSize(), ch): the
\* caller writes the array's data
Fill(o, ch) ==
  /\ alive(o) /\ mArray[o] # Null
  /\ data' = [data EXCEPT ![mArray[o]] = [i \in 1..Len(@) |-> ch]]
  /\ last' = Idle
  /\ UNCHANGED <<life, mArray, st, cls, dims, cname, destroyCount, fields, wsp,
               hands, lost>>

\* a.isSingleString()
IsSingleString(o) ==
  /\ alive(o)
  /\ LET w == charArrayIsSingleString(World, o) IN
     /\ Commit(w)
     /\ last' = Last("isSingleString", o, 0, mArray[o], w)
  /\ UNCHANGED <<life, hands, lost>>

\* std::u16string_view{a}
ToU16View(o) ==
  /\ alive(o)
  /\ LET w == charArrayU16View(World, o) IN
     /\ Commit(w)
     /\ last' = Last("u16view", o, 0, mArray[o], w)
  /\ UNCHANGED <<life, hands, lost>>

\* toAscii(CharArrayCref{...}) on a reference to a live char array
ToAscii(p, over) ==
  /\ st[p] = "live" /\ cls[p] = "char"
  /\ LET w == toAscii(World, p, over) IN
     /\ Commit(w)
     /\ last' = Last("toAscii", 0, p, p, w)
  /\ UNCHANGED <<life, hands, lost>>

NextChar ==
  \/ \E o \in Obj, ds \in CharDims, q \in Ptr \cup {Null}, layout \in Layouts :
       MakeCharArrayDims(o, ds, q, layout)
  \/ \E o \in Obj, str \in Strings, q \in Ptr \cup {Null} : MakeCharArrayStr(o, str, q)
  \/ \E o \in Obj, str \in Strings, q \in Ptr \cup {Null}, layout \in Layouts,
        ctor \in BOOLEAN : MakeCharArrayU16(o, str, q, layout, ctor)
  \/ \E o \in Obj, ch \in Alphabet : Fill(o, ch)
  \/ \E o \in Obj : IsSingleString(o)
  \/ \E o \in Obj : ToU16View(o)
  \/ \E p \in Ptr, over \in {0, 1} : ToAscii(p, over)
  \/ \E o \in Obj : Destruct(o)

\* A char array being made from dimensions or a string, and converted back.
SpecChar == Init /\ [][NextChar]_vars

\* ------------------------------------------------- struct array actions
\* A StructArrayRef / StructArrayCref refers to a live struct mxArray.
IsStruct(p) == st[p] = "live" /\ cls[p] = "struct"

\* An array given as a field value: what a live Array holds (the ArrayCref
\* comes from its conversion operator), not the struct itself, and without
\* fields of its own.
IsValue(p, v) ==
  /\ st[v] = "live" /\ v # p /\ fields[v] = <<>>
  /\ \E o \in Obj : alive(o) /\ mArray[o] = v

LastS(op, w, arg) == [Last(op, 0, 0, Null, w) EXCEPT !.arg = arg]

\* s.addField(name), through either overload; ok: the runtime can add it
AddField(p, fieldName, ok, view) ==
  /\ IsStruct(p)
  /\ LET w == IF view THEN addFieldView(World, p, fieldName, ok)
                      ELSE addField(World, p, fieldName, ok) IN
     /\ Commit(w)
     /\ last' = LastS("addField", w, [p |-> p, name |-> fieldName])
  /\ UNCHANGED <<life, hands, lost>>

\* s.getField(i, fieldIndex) on a StructArrayRef, a const StructArrayRef or a
\* StructArrayCref
GetFieldKinds == {"ref", "const", "cref"}
GetField(p, i, fieldIndex, kind) ==
  /\ IsStruct(p)
  /\ LET w == CASE kind = "ref" -> getField(World, p, i, fieldIndex)
                [] kind = "const" -> constGetField(World, p, i, fieldIndex)
                [] OTHER -> crefGetField(World, p, i, fieldIndex) IN
     /\ Commit(w)
     /\ last' = LastS("getField", w, [p |-> p, i |-> i, idx |-> fieldIndex])
  /\ UNCHANGED <<life, hands, lost>>

\* s.getField(i, name) and s.getField(name)
GetFieldByName(p, i, fieldName, first) ==
  /\ IsStruct(p)
  /\ first => i = 0
  /\ LET w == IF first THEN getFieldFirst(World, p, fieldName)
                       ELSE getFieldByName(World, p, i, fieldName) IN
     /\ Commit(w)
     /\ last' = LastS("getField", w,
                      [p |-> p, i |-> i,
                       idx |-> mxGetFieldNumber(World, p, fieldName)])
  /\ UNCHANGED <<life, hands, lost>>

\* What a setField call is given: the slot's old value, and who held the
\* value array.
SetArg(p, i, idx, v) ==
  [p |-> p, i |-> i, idx |-> idx, value |-> v,
   old |-> IF idx = invalid THEN Null ELSE mxGetFieldByNumber(World, p, i, idx),
   holders |-> {o \in Obj : alive(o) /\ mArray[o] = v}]

\* s.setField(i, fieldIndex, cref)
SetField(p, i, fieldIndex, v, q) ==
  /\ IsStruct(p)
  /\ i < Prod(dims[p])
  /\ IsValue(p, v)
  /\ q \in NativeAlloc
  /\ LET w == setField(World, p, i, fieldIndex, v, q) IN
     /\ Commit(w)
     /\ last' = LastS("setField", w, SetArg(p, i, fieldIndex, v))
  /\ UNCHANGED <<life, hands, lost>>

\* s.setField(i, name, cref)
SetFieldByName(p, i, fieldName, v, q) ==
  /\ IsStruct(p)
  /\ i < Prod(dims[p])
  /\ IsValue(p, v)
  /\ q \in NativeAlloc
  /\ LET w == setFieldByName(World, p, i, fieldName, v, q) IN
     /\ Commit(w)
     /\ last' = LastS("setField", w,
                      SetArg(p, i, mxGetFieldNumber(World, p, fieldName), v))
  /\ UNCHANGED <<life, hands, lost>>

\* s.setField(i, fieldIndex, std::move(a)) and s.setField(i, name,
\* std::move(a)); a holds a value array
SetFieldMove(p, i, fieldIndex, fieldName, o, byName) ==
  /\ IsStruct(p)
  /\ i < Prod(dims[p])
  /\ alive(o)
  /\ IF mArray[o] = Null THEN FALSE ELSE IsValue(p, mArray[o])
  /\ IF byName THEN fieldIndex = invalid ELSE fieldName = NullStr
  /\ LET w == IF byName THEN setFieldMoveByName(World, p, i, fieldName, o)
                        ELSE setFieldMove(World, p, i, fieldIndex, o) IN
     /\ Commit(w)
     /\ last' = LastS("setFieldMove", w,
                      SetArg(p, i, IF byName
                                   THEN mxGetFieldNumber(World, p, fieldName)
                                   ELSE fieldIndex, mArray[o]))
  /\ UNCHANGED <<life, hands, lost>>

\* s.removeField(name)
RemoveField(p, fieldName) ==
  /\ IsStruct(p)
  /\ LET w == removeField(World, p, fieldName) IN
     /\ Commit(w)
     /\ last' = LastS("removeField", w,
                      [p |-> p, name |-> fieldName, count |-> Len(fields[p]),
                       idx |-> mxGetFieldNumber(World, p, fieldName)])
  /\ UNCHANGED <<life, hands, lost>>

\* s.removeField(fieldIndex)
RemoveFieldIndex(p, fieldIndex) ==
  /\ IsStruct(p)
  /\ LET w == removeFieldIndex(World, p, fieldIndex) IN
     /\ Commit(w)
     /\ last' = LastS("removeField", w,
                      [p |-> p, name |-> "", count |-> Len(fields[p]),
                       idx |-> fieldIndex])
  /\ UNCHANGED <<life, hands, lost>>

\* An Array that owns a struct of one or two elements without fields and an
\* Array that owns a 1x1 double array, the value to store.  Element indexes
\* run past the last element of the smaller struct.
StructDims == {<<1, 1>>, <<1, 2>>}
ElemIndexes == {0, 1}
InitStruct ==
  /\ life = [o \in Obj |-> IF o <= 2 THEN "alive" ELSE "unborn"]
  /\ mArray = [o \in Obj |-> IF o <= 2 THEN o ELSE Null]
  /\ st = [p \in Ptr |-> IF p <= 2 THEN "live" ELSE "free"]
  /\ cls = [p \in Ptr |-> CASE p = 1 -> "struct" [] p = 2 -> "double"
                                [] OTHER -> "none"]
  /\ \E d \in StructDims :
       dims = [p \in Ptr |-> CASE p = 1 -> d [] p = 2 -> <<1, 1>>
                                 [] OTHER -> <<>>]
  /\ data = [p \in Ptr |-> <<>>]
  /\ cname = [p \in Ptr |-> ""]
  /\ destroyCount = [p \in Ptr |-> 0]
  /\ fields = [p \in Ptr |-> <<>>]
  /\ wsp = [n \in WorkspaceNames |-> Null]
  /\ hands = {}
  /\ lost = {}
  /\ last = Idle

NextStruct ==
  \/ \E o \in Obj : Destruct(o)
  \/ \E p \in Ptr, fieldName \in FieldNames, ok \in BOOLEAN, view \in BOOLEAN :
       AddField(p, fieldName, ok, view)
  \/ \E p \in Ptr, i \in ElemIndexes, fieldIndex \in FieldIndexes,
        kind \in GetFieldKinds : GetField(p, i, fieldIndex, kind)
  \/ \E p \in Ptr, i \in ElemIndexes, fieldName \in FieldNames, first \in BOOLEAN :
       GetFieldByName(p, i, fieldName, first)
  \/ \E p \in Ptr, i \in ElemIndexes, fieldIndex \in FieldIndexes, v \in Ptr,
        q \in Ptr \cup {Null} : SetField(p, i, fieldIndex, v, q)
  \/ \E p \in Ptr, i \in ElemIndexes, fieldName \in FieldNames, v \in Ptr,
        q \in Ptr \cup {Null} : SetFieldByName(p, i, fieldName, v, q)
  \/ \E p \in Ptr, i \in ElemIndexes, fieldIndex \in FieldIndexes,
        fieldName \in FieldNames, o \in Obj, byName \in BOOLEAN :
       SetFieldMove(p, i, fieldIndex, fieldName, o, byName)
  \/ \E p \in Ptr, fieldName \in FieldNames : RemoveField(p, fieldName)
  \/ \E p \in Ptr, fieldIndex \in FieldIndexes : RemoveFieldIndex(p, fieldIndex)

\* Struct arrays being made, given fields and values, read and destroyed.
SpecStruct == InitStruct /\ [][NextStruct]_vars

\* ------------------------------------- workspace and property actions
\* An Array that owns a 1x1 double array; no workspace has the variable.
InitMex ==
  /\ life = [o \in Obj |-> IF o = 1 THEN "alive" ELSE "unborn"]
  /\ mArray = [o \in Obj |-> IF o = 1 THEN 1 ELSE Null]
  /\ st = [p \in Ptr |-> IF p = 1 THEN "live" ELSE "free"]
  /\ cls = [p \in Ptr |-> IF p = 1 THEN "double" ELSE "none"]
  /\ dims = [p \in Ptr |-> IF p = 1 THEN <<1, 1>> ELSE <<>>]
  /\ data = [p \in Ptr |-> <<>>]
  /\ cname = [p \in Ptr |-> ""]
  /\ destroyCount = [p \in Ptr |-> 0]
  /\ fields = [p \in Ptr |-> <<>>]
  /\ wsp = [n \in WorkspaceNames |-> Null]
  /\ hands = {}
  /\ lost = {}
  /\ last = Idle

\* A live mxArray that a live Array holds: what an ArrayRef / ArrayCref
\* argument refers to.
IsHeld(v) == st[v] = "live" /\ \E o \in Obj : alive(o) /\ mArray[o] = v

\* name = getWorkspaceName(workspace)
GetWorkspaceName(workspace) ==
  /\ LET w == getWorkspaceName(World, workspace) IN
     /\ Commit(w)
     /\ last' = LastS("getWorkspaceName", w, [workspace |-> workspace])
  /\ UNCHANGED <<life, hands, lost>>

\* putVariable(workspace, name, cref), through either overload
PutVariable(workspace, name, v, q, view) ==
  /\ IsHeld(v)
  /\ q \in NativeAlloc
  /\ LET w == IF view THEN putVariableView(World, workspace, name, v, q)
                      ELSE putVariable(World, workspace, name, v, q) IN
     /\ Commit(w)
     /\ last' = LastS("putVariable", w,
                      [workspace |-> workspace, name |-> name, value |-> v,
                       holders |-> {o \in Obj : alive(o) /\ mArray[o] = v}])
  /\ UNCHANGED <<life, hands, lost>>

\* cref = getVariableCref(workspace, name), through either overload
GetVariableCref(workspace, name, view) ==
  /\ LET w == IF view THEN getVariableCrefView(World, workspace, name)
                      ELSE getVariableCref(World, workspace, name) IN
     /\ Commit(w)
     /\ last' = LastS("getVariableCref", w,
                      [workspace |-> workspace, name |-> name])
  /\ UNCHANGED <<life, hands, lost>>

\* a = getVariable(workspace, name), through either overload
GetVariable(o, workspace, name, q, view) ==
  /\ IsNextObj(o)
  /\ q \in NativeAlloc
  /\ LET w == IF view THEN getVariableView(World, o, workspace, name, q)
                      ELSE getVariable(World, o, workspace, name, q) IN
     /\ Commit(w)
     /\ life' = [life EXCEPT ![o] = IF w.exc = NoExc /\ w.ret # nullopt
                                    THEN "alive" ELSE "unborn"]
     /\ last' = [LastS("getVariable", w,
                       [workspace |-> workspace, name |-> name, q |-> q])
                   EXCEPT !.obj = o]
  /\ UNCHANGED <<hands, lost>>

\* cref = getProperty(ref, index, name), through any overload
PropOverloads == {"index", "indexView", "first"}
GetProperty(p, index, propName, q, overload) ==
  /\ IsHeld(p)
  /\ q \in NativeAlloc
  /\ overload = "first" => index = 0
  /\ LET w == CASE overload = "index" ->
                     getProperty(World, p, index, propName, q)
                [] overload = "indexView" ->
                     getPropertyView(World, p, index, propName, q)
                [] OTHER -> getPropertyFirst(World, p, propName, q) IN
     /\ Commit(w)
     /\ lost' = IF w.exc = NoExc /\ w.ret # nullopt
                THEN lost \cup {w.ret[1]} ELSE lost
     /\ last' = LastS("getProperty", w,
                      [array |-> p, index |-> index, name |-> propName,
                       q |-> q])
  /\ UNCHANGED <<life, hands>>

\* setProperty(ref, index, name, cref), through any overload
SetProperty(p, index, propName, v, overload) ==
  /\ IsHeld(p)
  /\ IsHeld(v)
  /\ overload = "first" => index = 0
  /\ LET w == CASE overload = "index" ->
                     setProperty(World, p, index, propName, v)
                [] overload = "indexView" ->
                     setPropertyView(World, p, index, propName, v)
                [] OTHER -> setPropertyFirst(World, p, propName, v) IN
     /\ Commit(w)
     /\ last' = LastS("setProperty", w,
                      [array |-> p, index |-> index, name |-> propName,
                       value |-> v])
  /\ UNCHANGED <<life, hands, lost>>

NextMex ==
  \/ \E workspace \in WorkspaceValues : GetWorkspaceName(workspace)
  \/ \E workspace \in WorkspaceValues, name \in VarNames, v \in Ptr,
        q \in Ptr \cup {Null}, view \in BOOLEAN :
       PutVariable(workspace, name, v, q, view)
  \/ \E workspace \in WorkspaceValues, name \in VarNames, view \in BOOLEAN :
       GetVariableCref(workspace, name, view)
  \/ \E o \in Obj, workspace \in WorkspaceValues, name \in VarNames,
        q \in Ptr \cup {Null}, view \in BOOLEAN :
       GetVariable(o, workspace, name, q, view)
  \/ \E p \in Ptr, index \in PropIndexes, propName \in PropNames,
        q \in Ptr \cup {Null}, overload \in PropOverloads :
       GetProperty(p, index, propName, q, overload)
  \/ \E p \in Ptr, index \in PropIndexes, propName \in PropNames, v \in Ptr,
        overload \in PropOverloads : SetProperty(p, index, propName, v, overload)
  \/ \E o \in Obj : Destruct(o)

\* Workspace variables and object properties read and written, around the
\* Arrays that hold the values.
SpecMex == InitMex /\ [][NextMex]_vars

\* ------------------------------------------------------------- properties
Holders(p) == {o \in Obj : alive(o) /\ mArray[o] = p}
Allocated == {p \in Ptr : st[p] # "free"}

\* C1: over any sequence of Array operations in which each raw pointer is
\* adopted by at most one Array, no mxArray is passed to mxDestroyArray more
\* than once and no live Array holds a pointer to a destroyed mxArray.
C1_NoDoubleDestroyNoDangling ==
  /\ \A p \in Ptr : destroyCount[p] <= 1
  /\ \A o \in Obj : (alive(o) /\ mArray[o] # Null) => st[mArray[o]] = "live"

\* An mxArray was destroyed while Arrays still hold others and a pointer is out.
C1_Witness ==
  /\ \E p \in Ptr : destroyCount[p] = 1
  /\ \E o \in Obj : alive(o) /\ mArray[o] # Null
  /\ hands # {}

\* C2: every mxArray an Array came to own and that was not handed out through
\* release() is either still held by exactly one live Array and undestroyed, or
\* held by none and destroyed exactly once; once all Arrays are destroyed,
\* each such mxArray has been destroyed exactly once.
C2_OwnedDestroyedExactlyOnce ==
  /\ \A p \in Allocated \ (hands \cup lost) :
        \/ Cardinality(Holders(p)) = 1 /\ st[p] = "live" /\ destroyCount[p] = 0
        \/ Holders(p) = {} /\ st[p] = "dead" /\ destroyCount[p] = 1
  /\ (\A o \in Obj : ~alive(o)) =>
        \A p \in Allocated \ (hands \cup lost) : destroyCount[p] = 1

\* All Arrays are gone and two mxArrays they owned have been destroyed.
C2_Witness ==
  /\ \A o \in Obj : ~alive(o)
  /\ Cardinality({p \in Ptr : destroyCount[p] = 1}) >= 2

CopyCtorOps == {"copyCtor" \o k : k \in SrcKinds}
LastSrcPtr == IF last.op = "copyCtorArray" THEN mArray[last.src] ELSE last.src

\* C4: copy construction from a valid Array, ArrayRef or ArrayCref yields a
\* new Array owning a fresh duplicate distinct from the source's mxArray and
\* leaves the source holding the same pointer; from an Array holding nothing
\* it yields an invalid Array, calls nothing and does not throw; and it throws
\* "failed to duplicate array" if mxDuplicateArray returns null.
C4_CopyConstruct ==
  last.op \in CopyCtorOps =>
    /\ LastSrcPtr = last.pre
    /\ last.pre = Null =>
          /\ last.exc = NoExc
          /\ last.calls = <<>>
          /\ alive(last.obj) /\ mArray[last.obj] = Null
    /\ last.pre # Null =>
          /\ last.calls = << <<"mxDuplicateArray", last.pre>> >>
          /\ IF last.ret = Null
             THEN /\ last.exc = Exc("", "failed to duplicate array")
                  /\ ~alive(last.obj)
             ELSE /\ last.exc = NoExc
                  /\ last.ret # last.pre
                  /\ alive(last.obj) /\ mArray[last.obj] = last.ret
                  /\ Holders(last.ret) = {last.obj}
                  /\ st[last.ret] = "live" /\ st[last.pre] = "live"

\* A copy of a valid Array was constructed.
C4_Witness ==
  last.op = "copyCtorArray" /\ last.pre # Null /\ last.exc = NoExc

\* C5: move construction hands the source's pointer to the new Array, leaves
\* the source holding null and calls neither mxDuplicateArray nor
\* mxDestroyArray (the mxArray stays alive and undestroyed).
C5_MoveConstruct ==
  last.op = "moveCtor" =>
    /\ last.exc = NoExc
    /\ alive(last.obj) /\ mArray[last.obj] = last.pre
    /\ mArray[last.src] = Null
    /\ last.calls = <<>>
    /\ last.pre # Null =>
          /\ st[last.pre] = "live" /\ destroyCount[last.pre] = 0
          /\ Holders(last.pre) = {last.obj}

\* An Array holding an mxArray was moved from.
C5_Witness == last.op = "moveCtor" /\ last.pre # Null

\* C6: release() returns the pointer the Array held and leaves the Array
\* invalid (so a second release() returns null); an mxArray handed out by
\* release() is not destroyed by the Array's destructor or later assignments:
\* while the caller holds it, it is alive, undestroyed and held by no Array.
C6_Release ==
  /\ last.op = "release" =>
        /\ last.ret = last.pre
        /\ mArray[last.obj] = Null
        /\ last.exc = NoExc
        /\ last.calls = <<>>
  /\ \A p \in hands :
        st[p] = "live" /\ destroyCount[p] = 0 /\ Holders(p) = {}

\* A pointer was released and every Array, the releasing one included, has
\* been destroyed since.
C6_Witness == hands # {} /\ \A o \in Obj : ~alive(o)

IntrospectionOps ==
  DOMAIN Forwarders \cup {"getDims", "resize", "isClass", "getClassId",
                          "getData", "operatorArrayRef", "operatorArrayCref"}

\* C3: on an Array that holds no mxArray every introspection accessor and
\* both reference conversions throw "accessing invalid array" (with the
\* accessor's id) and call nothing of the native API; isValid(), get() and
\* release() never throw, valid or not.
C3_InvalidAccess ==
  /\ (last.op \in IntrospectionOps /\ last.pre = Null) =>
        /\ last.exc = Exc(AccId(last.op), "accessing invalid array")
        /\ last.calls = <<>>
  /\ last.op \in {"isValid", "get", "release"} => last.exc = NoExc

\* getDims() was called on an invalid Array.
C3_Witness == last.op = "getDims" /\ last.pre = Null

\* C7: on a valid Array getDataAs<T>() and getScalarAs<T>() return the data
\* pointer exactly when the array's class ID is T's; otherwise they throw
\* "matlabw:mx:Array:getDataAs" / "type must match the array class ID" and
\* return no pointer.  On an invalid Array they return no pointer either.
C7_GetDataAs ==
  last.op \in {"getDataAs", "getScalarAs"} =>
    IF last.pre = Null THEN last.exc # NoExc /\ last.ret = Null
    ELSE IF cls[last.pre] = last.arg[1]
    THEN last.exc = NoExc /\ last.ret = last.pre
    ELSE /\ last.exc = Exc("matlabw:mx:Array:getDataAs",
                           "type must match the array class ID")
         /\ last.ret = Null

\* getDataAs<T>() was called on a valid Array of another class.
C7_Witness ==
  last.op = "getDataAs" /\ last.pre # Null /\ cls[last.pre] # last.arg[1]

\* C8 (as claimed): toAscii(CharArrayCref) throws "Input must be a single
\* string." exactly when the array is not a single string (rank <= 2 and one
\* row), and converts a single string without that exception.
C8_ToAsciiSingleString ==
  last.op = "toAscii" =>
    (last.exc = Exc("matlabw:mx:toAscii", "Input must be a single string.\n")
       <=> ~crefIsSingleString(World, last.pre))

\* C9 (as claimed): makeObjectArray on a valid StructArray with a non-null
\* class name for which mxSetClassName succeeds returns a valid Array owning
\* the mxArray the source owned, carrying the class name, and leaves the
\* source invalid; otherwise it throws the matching exception.
C9_MakeObjectArray ==
  last.op = "makeObjectArray" =>
    IF last.pre = Null THEN last.exc = Exc("", "invalid source array")
    ELSE IF last.arg[1] = NullStr THEN last.exc = Exc("", "invalid class name")
    ELSE IF last.arg[2] # 0 THEN last.exc = Exc("", "failed to set class name")
    ELSE /\ last.exc = NoExc
         /\ alive(last.obj) /\ mArray[last.obj] = last.pre
         /\ mArray[last.src] = Null
         /\ cname[last.pre] = last.arg[1]


\* C10 (as claimed): a CharArray made from a std::u16string_view str is a
\* single string, and converting it back to std::u16string_view yields str.
C10_U16RoundTrip ==
  (last.op = "makeCharArrayU16" /\ last.exc = NoExc) =>
    /\ charArrayIsSingleString(World, last.obj).ret = TRUE
    /\ charArrayU16View(World, last.obj).exc = NoExc
    /\ charArrayU16View(World, last.obj).ret = last.arg[1]

\* The native calls of the last operation that went to fn, and whether it
\* called nothing but the functions in fns.
CallsOf(fn) == SelectSeq(last.calls, LAMBDA c : c[1] = fn)
CallsOnly(fns) == \A k \in 1..Len(last.calls) : last.calls[k][1] \in fns

\* C11: addField with a non-null name throws "failed to add field" if and
\* only if mxAddField returned -1, and returns normally whenever it returned
\* a field number (0 included); a null name throws "invalid field name"
\* without a native call.
C11_AddField ==
  last.op = "addField" =>
    IF last.arg.name = NullStr
    THEN last.exc = Exc("", "invalid field name") /\ last.calls = <<>>
    ELSE /\ last.exc = Exc("", "failed to add field") <=> last.ret = 0 - 1
         /\ last.ret # 0 - 1 => last.exc = NoExc

\* The value the slot (element i, field idx) of struct p holds now.
Slot(p, i, idx) ==
  IF i < Prod(dims[p]) /\ idx < Len(fields[p])
  THEN fields[p][idx + 1].vals[i + 1] ELSE Null

\* C12: getField(i, fieldIndex) returns nullopt for FieldIndex::invalid (so
\* for a name the struct does not have), throws "field index out of range"
\* for fieldIndex >= getFieldCount(), returns nullopt when the slot is unset
\* and otherwise a reference to the stored array, which it neither copies nor
\* destroys.
C12_GetField ==
  last.op = "getField" =>
    /\ CallsOnly({"mxGetFieldNumber", "mxGetNumberOfFields", "mxGetFieldByNumber"})
    /\ IF last.arg.idx = invalid
       THEN last.exc = NoExc /\ last.ret = nullopt
       ELSE IF last.arg.idx >= Len(fields[last.arg.p])
       THEN last.exc = Exc("", "field index out of range")
       ELSE /\ last.exc = NoExc
            /\ last.ret = IF Slot(last.arg.p, last.arg.i, last.arg.idx) = Null
                          THEN nullopt
                          ELSE Some(Slot(last.arg.p, last.arg.i, last.arg.idx))

\* A stored field value was returned.
C12_Witness ==
  last.op = "getField" /\ last.exc = NoExc /\ last.ret # nullopt

\* setField(i, fieldIndex, ArrayCref) was given a field index it rejects.
SetFieldBadIndex ==
  last.arg.idx = invalid \/ last.arg.idx >= Len(fields[last.arg.p])

\* It threw "invalid field index" and stored nothing.
SetFieldRejected ==
  /\ last.exc = Exc("", "invalid field index")
  /\ CallsOf("mxDuplicateArray") = <<>>
  /\ CallsOf("mxSetFieldByNumber") = <<>>

\* The slot holds a fresh duplicate of value that no Array holds and nothing
\* destroyed; value is as it was and with the Arrays that held it.
SetFieldStored ==
  LET new == Slot(last.arg.p, last.arg.i, last.arg.idx) IN
  /\ last.exc = NoExc
  /\ new # Null /\ new # last.arg.value /\ new # last.arg.old
  /\ CallsOf("mxDuplicateArray") = << <<"mxDuplicateArray", last.arg.value>> >>
  /\ CallsOf("mxSetFieldByNumber") =
       << <<"mxSetFieldByNumber",
            <<last.arg.p, last.arg.i, last.arg.idx, new>> >> >>
  /\ st[new] = "live" /\ destroyCount[new] = 0 /\ Holders(new) = {}
  /\ cls[new] = cls[last.arg.value] /\ dims[new] = dims[last.arg.value]
  /\ st[last.arg.value] = "live" /\ destroyCount[last.arg.value] = 0
  /\ Holders(last.arg.value) = last.arg.holders

\* C13 as stated: setField(i, fieldIndex, ArrayCref) throws "invalid field
\* index" for FieldIndex::invalid or fieldIndex >= getFieldCount(), and
\* otherwise stores a fresh duplicate of value that the struct owns, leaving
\* value unmodified and with its owner.
C13_SetFieldAsStated ==
  last.op = "setField" =>
    IF SetFieldBadIndex THEN SetFieldRejected ELSE SetFieldStored

\* C13, amended: as stated when mxDuplicateArray returns an array; when it
\* returns null, setField throws "failed to duplicate array" and the slot
\* keeps what it held.
C13_SetField ==
  last.op = "setField" =>
    IF SetFieldBadIndex THEN SetFieldRejected
    ELSE IF last.ret = Null
    THEN /\ last.exc = Exc("", "failed to duplicate array")
         /\ CallsOf("mxSetFieldByNumber") = <<>>
         /\ Slot(last.arg.p, last.arg.i, last.arg.idx) = last.arg.old
    ELSE SetFieldStored

\* A duplicate was stored in the second element of a struct.
C13_Witness ==
  /\ last.op = "setField" /\ last.exc = NoExc /\ last.arg.i = 1
  /\ Slot(last.arg.p, last.arg.i, last.arg.idx) # Null

\* C14: removeField throws "invalid field name" for a null name, does
\* nothing for a name the struct does not have or FieldIndex::invalid, throws
\* "field index out of range" for an index >= getFieldCount(), and otherwise
\* calls mxRemoveField once with that index.
C14_RemoveField ==
  last.op = "removeField" =>
    IF last.arg.name = NullStr
    THEN /\ last.exc = Exc("", "invalid field name")
         /\ last.calls = <<>>
         /\ Len(fields[last.arg.p]) = last.arg.count
    ELSE IF last.arg.idx = invalid
    THEN /\ last.exc = NoExc
         /\ CallsOf("mxRemoveField") = <<>>
         /\ Len(fields[last.arg.p]) = last.arg.count
    ELSE IF last.arg.idx >= last.arg.count
    THEN /\ last.exc = Exc("", "field index out of range")
         /\ CallsOf("mxRemoveField") = <<>>
         /\ Len(fields[last.arg.p]) = last.arg.count
    ELSE /\ last.exc = NoExc
         /\ CallsOf("mxRemoveField") =
              << <<"mxRemoveField", <<last.arg.p, last.arg.idx>> >> >>

\* The second field of a struct was removed by name.
C14_Witness ==
  /\ last.op = "removeField" /\ last.arg.name \in {"a", "b"}
  /\ last.arg.idx = 1 /\ CallsOf("mxRemoveField") # <<>>

\* C19: after a setField call on a slot that held an array, the array it
\* held has been destroyed.
C19_SetFieldNoLeak ==
  (last.op \in {"setField", "setFieldMove"} /\ last.exc = NoExc
                                             /\ last.arg.old # Null) =>
    st[last.arg.old] = "dead"


\* The workspace values getWorkspaceName has a name for, and that name.
ValidWorkspaces == {Workspace.base, Workspace.global, Workspace.caller}
NameOf(workspace) ==
  CASE workspace = Workspace.base -> "base"
    [] workspace = Workspace.global -> "global"
    [] workspace = Workspace.caller -> "caller"

\* Every mxArray that belongs to an Array (not to a workspace, and not
\* returned without an owner) is held by exactly one live Array and
\* undestroyed, or held by none and destroyed exactly once.
RuntimeOwned(p) ==
  (\E n \in WorkspaceNames : wsp[n] = p) \/ (st[p] = "dead" /\ destroyCount[p] = 0)
OwnedOnce ==
  \A p \in Allocated \ lost :
     ~RuntimeOwned(p) =>
        \/ Cardinality(Holders(p)) = 1 /\ st[p] = "live" /\ destroyCount[p] = 0
        \/ Holders(p) = {} /\ st[p] = "dead" /\ destroyCount[p] = 1

\* C15: getVariable returns nullopt when mexGetVariable returns null and
\* otherwise an Array that owns the copy, destroyed exactly once when the
\* Array dies; getVariableCref returns nullopt on null and otherwise a
\* reference to the workspace's array, which the wrapper never destroys; both
\* throw "invalid variable name" for a null name.
C15_GetVariable ==
  /\ OwnedOnce
  /\ \A n \in WorkspaceNames : wsp[n] # Null => destroyCount[wsp[n]] = 0
  /\ (last.op \in {"getVariable", "getVariableCref"}
        /\ last.arg.name = NullStr) =>
       last.exc = Exc("", "invalid variable name") /\ last.calls = <<>>
  /\ (last.op = "getVariable" /\ last.arg.name # NullStr
        /\ last.arg.workspace \in ValidWorkspaces) =>
       /\ last.exc = NoExc
       /\ last.calls = << <<"mexGetVariable",
                            <<NameOf(last.arg.workspace), last.arg.name>> >> >>
       /\ IF wsp[NameOf(last.arg.workspace)] = Null \/ last.arg.q = Null
          THEN last.ret = nullopt /\ ~alive(last.obj)
          ELSE /\ last.ret = Some(last.arg.q)
               /\ alive(last.obj) /\ Holders(last.arg.q) = {last.obj}
               /\ st[last.arg.q] = "live"
               /\ last.arg.q # wsp[NameOf(last.arg.workspace)]
  /\ (last.op = "getVariableCref" /\ last.arg.name # NullStr
        /\ last.arg.workspace \in ValidWorkspaces) =>
       /\ last.exc = NoExc
       /\ last.calls = << <<"mexGetVariablePtr",
                            <<NameOf(last.arg.workspace), last.arg.name>> >> >>
       /\ IF wsp[NameOf(last.arg.workspace)] = Null
          THEN last.ret = nullopt
          ELSE /\ last.ret = Some(wsp[NameOf(last.arg.workspace)])
               /\ Holders(wsp[NameOf(last.arg.workspace)]) = {}
               /\ st[wsp[NameOf(last.arg.workspace)]] = "live"

\* A copy got with getVariable died with its Array while the workspace
\* still has the variable.
C15_Witness ==
  /\ \E p \in Allocated \ lost :
        ~RuntimeOwned(p) /\ p # 1 /\ st[p] = "dead" /\ destroyCount[p] = 1
  /\ \E n \in WorkspaceNames : wsp[n] # Null

C17_WorkspaceName ==
  /\ last.op = "getWorkspaceName" =>
       /\ last.arg.workspace = Workspace.base =>
            last.exc = NoExc /\ last.ret = "base"
       /\ last.arg.workspace = Workspace.global =>
            last.exc = NoExc /\ last.ret = "global"
       /\ last.arg.workspace = Workspace.caller =>
            last.exc = NoExc /\ last.ret = "caller"
       /\ last.arg.workspace \notin ValidWorkspaces =>
            last.exc = Exc("", "invalid workspace")
  /\ (last.op \in {"putVariable", "getVariable", "getVariableCref"}
        /\ last.arg.name # NullStr) =>
       IF last.arg.workspace \in ValidWorkspaces
       THEN /\ Len(last.calls) = 1
            /\ last.calls[1][2][1] = NameOf(last.arg.workspace)
            /\ last.calls[1][2][2] = last.arg.name
       ELSE last.exc = Exc("", "invalid workspace") /\ last.calls = <<>>

\* getVariableCref passed "caller" to the native call.
C17_Witness ==
  /\ last.op = "getVariableCref" /\ last.arg.workspace = Workspace.caller
  /\ last.calls # <<>>

\* C18: getProperty throws "property name must not be null" for a null name
\* without a native call, returns nullopt when mxGetProperty returns null and
\* otherwise a reference to the returned array; setProperty throws the same
\* for a null name and otherwise makes exactly one mxSetProperty call with
\* the given index, name and value.
C18_Property ==
  /\ last.op = "getProperty" =>
       IF last.arg.name = NullStr
       THEN /\ last.exc = Exc("", "property name must not be null")
            /\ last.calls = <<>>
       ELSE /\ last.exc = NoExc
            /\ last.calls = << <<"mxGetProperty",
                 <<last.arg.array, last.arg.index, last.arg.name>> >> >>
            /\ last.ret = IF last.arg.q = Null THEN nullopt
                          ELSE Some(last.arg.q)
  /\ last.op = "setProperty" =>
       IF last.arg.name = NullStr
       THEN /\ last.exc = Exc("", "property name must not be null")
            /\ last.calls = <<>>
       ELSE /\ last.exc = NoExc
            /\ last.calls = << <<"mxSetProperty",
                 <<last.arg.array, last.arg.index, last.arg.name,
                   last.arg.value>> >> >>

\* The property of the second element was read.
C18_Witness ==
  /\ last.op = "getProperty" /\ last.arg.index = 1
  /\ last.exc = NoExc /\ last.ret # nullopt

\* C20: an mxArray got from an allocating native call (mexGetVariable, the
\* copy mxGetProperty returns) is owned by an Array when it is returned; only
\* what aliases runtime storage (mexGetVariablePtr) comes back unowned.
C20_AllocationsOwned ==
  /\ (last.op \in {"getVariable", "getProperty"} /\ last.exc = NoExc
        /\ last.ret # nullopt) =>
       Cardinality(Holders(last.ret[1])) = 1
  /\ (last.op = "getVariableCref" /\ last.exc = NoExc
        /\ last.ret # nullopt) =>
       /\ Holders(last.ret[1]) = {}
       /\ \E n \in WorkspaceNames : wsp[n] = last.ret[1]

====
